---- MODULE Spec2Model ----
(***************************************************************************)
(* A model of the Express / Better Auth starter: environment loading,      *)
(* start-up, the MongoDB connector, the health probes, the authentication  *)
(* middleware and the graceful shutdown.                                   *)
(*                                                                         *)
(* Text values (environment variables) are sequences of characters, each   *)
(* character a one-letter string.  A long literal whose inner characters   *)
(* never matter (a URL, a host name) is kept as one opaque chunk.          *)
(***************************************************************************)
EXTENDS Integers, Sequences, FiniteSets, TLC

VARIABLES
    env,          \* process.env: key -> text, or Undefined
    pc,           \* position of the process in its start-up / life
    exit,         \* [code, cause] once the process has exited, NoExit before
    sigintDb,     \* database.ts has registered its SIGINT handler
    installed,    \* setupGracefulShutdown has registered its four handlers
    readyState,   \* mongoose.connection.readyState
    attempts,     \* number of mongoose.connect calls made
    connectResult,\* outcome of the start-up connection: none / ok / failed
    server,       \* http.Server: none / listening / closing / closed
    inflight,     \* route -> number of accepted requests not yet answered
    lastResp,     \* the response emitted last, NoResp before the first
    closeCbs,     \* callbacks registered by server.close and not yet run
    timers,       \* deadlines (ms since the first shutdown) of armed timers
    elapsed,      \* ms since the first call of shutdown
    dbClosers,    \* origin -> pending mongoose.connection.close() calls
    dbCloseSeen,  \* a close of the connection has been started
    triggers,     \* number of signals / fatal errors delivered so far
    areq,         \* request id -> request passing through authenticateUser
    lastClose,    \* how the close settled last ended: none / ok / failed
    cfg,          \* what each of the two environment modules has exported
    hits,         \* rate limiter store: source address -> requests in the window
    users,        \* the user records stored so far
    http          \* the request that went through the middleware chain last

vars == <<env, pc, exit, sigintDb, installed, readyState, attempts, connectResult,
          server, inflight, lastResp, closeCbs, timers, elapsed, dbClosers,
          dbCloseSeen, triggers, areq, lastClose, cfg, hits, users, http>>

lifeVars == <<env, pc, exit, sigintDb, installed, readyState, attempts, connectResult,
              server, inflight, lastResp, closeCbs, timers, elapsed, dbClosers,
              dbCloseSeen, triggers, lastClose, cfg>>

edgeVars == <<hits, users, http>>

-----------------------------------------------------------------------------
(* Bounds of the model *)

\* environments differ from the fully configured one in at most this many keys
MaxUnset == 1
\* number of keys the environment modules, evaluated alone, may find unset
MaxUnsetEnv == 2
\* requests accepted and not yet answered
MaxInflight == 2
\* signals and fatal errors delivered to one process
MaxTriggers == 2
\* requests passing through the middleware at the same time
MaxAuthReqs == 2
\* granularity of the clock that runs during shutdown, in ms
TickMs == 5000

-----------------------------------------------------------------------------
(* Text and JavaScript helpers *)

Undefined == <<"undefined">>
Empty == <<>>

\* JavaScript truthiness of a string-or-undefined
Truthy(v) == v # Undefined /\ v # Empty

\* a || b
OrElse(a, b) == IF Truthy(a) THEN a ELSE b

Digits == {"0", "1", "2", "3", "4", "5", "6", "7", "8", "9"}
WhiteSpace == {" "}

DigitVal(c) ==
    CASE c = "0" -> 0 [] c = "1" -> 1 [] c = "2" -> 2 [] c = "3" -> 3 [] c = "4" -> 4
      [] c = "5" -> 5 [] c = "6" -> 6 [] c = "7" -> 7 [] c = "8" -> 8 [] c = "9" -> 9

RECURSIVE SkipSpace(_)
SkipSpace(s) == IF s # <<>> /\ Head(s) \in WhiteSpace THEN SkipSpace(Tail(s)) ELSE s

RECURSIVE DigitRun(_, _, _)
\* the value of the longest prefix of digits of s; n counts the digits read
DigitRun(s, acc, n) ==
    IF s # <<>> /\ Head(s) \in Digits
    THEN DigitRun(Tail(s), acc * 10 + DigitVal(Head(s)), n + 1)
    ELSE [val |-> acc, n |-> n]

\* parseInt(s, 10): leading white space, an optional sign, then digits up to the
\* first character that is no digit; NaN when there is no digit
ParseInt(s) ==
    LET t == SkipSpace(s)
        neg == t # <<>> /\ Head(t) = "-"
        u == IF t # <<>> /\ Head(t) \in {"-", "+"} THEN Tail(t) ELSE t
        r == DigitRun(u, 0, 0)
    IN  IF r.n = 0 THEN [nan |-> TRUE, val |-> 0]
        ELSE [nan |-> FALSE, val |-> IF neg THEN 0 - r.val ELSE r.val]

-----------------------------------------------------------------------------
(* config/env.ts (second half of src/index.ts) *)

Keys == {"PORT", "NODE_ENV", "MONGO_URI", "ALLOWED_ORIGINS", "RATE_LIMIT_WINDOW_MS",
         "RATE_LIMIT_MAX_REQUESTS", "SMTP_HOST", "SMTP_PORT", "SMTP_SECURE",
         "SMTP_USER", "SMTP_PASS", "SMTP_FROM", "BETTER_AUTH_SECRET",
         "BETTER_AUTH_URL", "FRONTEND_URL", "GITHUB_CLIENT_ID",
         "GITHUB_CLIENT_SECRET", "GOOGLE_CLIENT_ID", "GOOGLE_CLIENT_SECRET"}

\* the second argument of each getEnvVariable call; "" when it is left out
ConfigEnvDefault(k) ==
    CASE k = "PORT" -> <<"5", "0", "0", "0">>
      [] k = "NODE_ENV" -> <<"development">>
      [] k = "MONGO_URI" -> <<"mongodb://localhost:27017/your-database-name">>
      [] k = "ALLOWED_ORIGINS" -> <<"http://localhost:3000,http://localhost:3001">>
      [] k = "RATE_LIMIT_WINDOW_MS" -> <<"9", "0", "0", "0", "0", "0">>
      [] k = "RATE_LIMIT_MAX_REQUESTS" -> <<"4", "0", "0">>
      [] k = "SMTP_HOST" -> <<"smtp.gmail.com">>
      [] k = "SMTP_PORT" -> <<"5", "8", "7">>
      [] k = "SMTP_SECURE" -> <<"false">>
      [] k = "SMTP_USER" -> Empty
      [] k = "SMTP_PASS" -> Empty
      [] k = "SMTP_FROM" -> <<"noreply@yourapp.com">>
      [] k = "BETTER_AUTH_SECRET" -> Empty
      [] k = "BETTER_AUTH_URL" -> <<"http://localhost:5000">>
      [] k = "FRONTEND_URL" -> <<"http://localhost:3000">>
      [] k = "GITHUB_CLIENT_ID" -> Empty
      [] k = "GITHUB_CLIENT_SECRET" -> Empty
      [] k = "GOOGLE_CLIENT_ID" -> Empty
      [] k = "GOOGLE_CLIENT_SECRET" -> Empty

\* a getEnvVariable that returns whatever it finds and never throws
GetEnvVariableLenient(e, key, defaultValue) ==
    [threw |-> FALSE, value |-> OrElse(e[key], defaultValue)]

\* getEnvVariable(key, defaultValue = "")
GetEnvVariable(e, key, defaultValue) ==
    LET value == OrElse(e[key], defaultValue)
    IN  IF ~Truthy(value) THEN [threw |-> TRUE, value |-> Undefined]
        ELSE [threw |-> FALSE, value |-> value]

\* evaluating the module throws when one of its getEnvVariable calls throws
ConfigEnvThrows(e) ==
    \E k \in Keys : GetEnvVariable(e, k, ConfigEnvDefault(k)).threw

\* a module whose evaluation threw exports nothing; one not yet evaluated
Threw == [threw |-> TRUE]
NotLoaded == [loaded |-> FALSE]
NoCfg == [configEnv |-> NotLoaded, envConfig |-> NotLoaded]

\* the exports of config/env.ts: what each getEnvVariable call returned, and
\* for the keys the module converts, the converted value
ConfigEnvExports(e) ==
    IF ConfigEnvThrows(e) THEN Threw
    ELSE LET v(k) == GetEnvVariable(e, k, ConfigEnvDefault(k)).value
         IN  [k \in Keys |->
                CASE k \in {"RATE_LIMIT_WINDOW_MS", "RATE_LIMIT_MAX_REQUESTS", "SMTP_PORT"}
                       -> ParseInt(v(k))
                  [] k = "SMTP_SECURE" -> v(k) = <<"true">>
                  [] OTHER -> v(k)]

-----------------------------------------------------------------------------
(* utils/envConfig.ts *)

\* getEnvVariable(key, defaultValue?) of utils/envConfig.ts
GetEnvVariableStrict(e, key, defaultValue) ==
    LET value == OrElse(e[key], defaultValue)
    IN  IF ~Truthy(value) THEN [threw |-> TRUE, value |-> Undefined]
        ELSE [threw |-> FALSE, value |-> value]

PortMax == 65535

\* a getPort that checks only that PORT is a number
GetPortUnchecked(e) ==
    LET parsedPort == ParseInt(OrElse(e["PORT"], <<"5", "0", "0", "0">>))
    IN  IF parsedPort.nan THEN [threw |-> TRUE, value |-> 0]
        ELSE [threw |-> FALSE, value |-> parsedPort.val]

\* getPort()
GetPort(e) ==
    LET port == OrElse(e["PORT"], <<"5", "0", "0", "0">>)
        parsedPort == ParseInt(port)
    IN  IF parsedPort.nan \/ parsedPort.val < 0 \/ parsedPort.val > PortMax
        THEN [threw |-> TRUE, value |-> 0]
        ELSE [threw |-> FALSE, value |-> parsedPort.val]

\* evaluating the module throws at the first failing export
EnvConfigThrows(e) ==
    \/ GetPort(e).threw
    \/ GetEnvVariableStrict(e, "MONGO_URI", Undefined).threw
    \/ GetEnvVariableStrict(e, "BETTER_AUTH_SECRET", Undefined).threw

\* an SMTP_FROM that prefers SMTP_USER
SmtpFromUserFirst(e) == OrElse(e["SMTP_USER"], e["SMTP_FROM"])

\* process.env.SMTP_FROM || process.env.SMTP_USER
SmtpFrom(e) == OrElse(e["SMTP_FROM"], e["SMTP_USER"])

\* the exports of utils/envConfig.ts (ALLOWED_ORIGINS is kept unsplit)
EnvConfigExports(e) ==
    IF EnvConfigThrows(e) THEN Threw
    ELSE [PORT |-> GetPort(e).value,
          NODE_ENV |-> OrElse(e["NODE_ENV"], <<"development">>),
          MONGO_URI |-> GetEnvVariableStrict(e, "MONGO_URI", Undefined).value,
          ALLOWED_ORIGINS |->
              IF Truthy(e["ALLOWED_ORIGINS"]) THEN e["ALLOWED_ORIGINS"]
              ELSE <<"http://localhost:3000,http://localhost:3001">>,
          RATE_LIMIT_WINDOW_MS |->
              ParseInt(OrElse(e["RATE_LIMIT_WINDOW_MS"], <<"9", "0", "0", "0", "0", "0">>)),
          RATE_LIMIT_MAX_REQUESTS |->
              ParseInt(OrElse(e["RATE_LIMIT_MAX_REQUESTS"], <<"4", "0", "0">>)),
          SMTP_HOST |-> OrElse(e["SMTP_HOST"], <<"smtp.gmail.com">>),
          SMTP_PORT |-> OrElse(e["SMTP_PORT"], <<"5", "8", "7">>),
          SMTP_SECURE |-> OrElse(e["SMTP_SECURE"], <<"false">>),
          SMTP_USER |-> OrElse(e["SMTP_USER"], Empty),
          SMTP_PASS |-> OrElse(e["SMTP_PASS"], Empty),
          SMTP_FROM |-> SmtpFrom(e),
          BETTER_AUTH_SECRET |->
              GetEnvVariableStrict(e, "BETTER_AUTH_SECRET", Undefined).value,
          BETTER_AUTH_URL |-> OrElse(e["BETTER_AUTH_URL"], <<"http://localhost:${PORT}">>),
          FRONTEND_URL |-> OrElse(e["FRONTEND_URL"], <<"http://localhost:3000">>)]

-----------------------------------------------------------------------------
(* The environments a process is started in *)

ValidPort == <<"8", "0", "8", "0">>

\* the least length the README asks of BETTER_AUTH_SECRET
MinSecretLength == 32

\* a secret of that length, and one that is too short
LongSecret == [i \in 1..MinSecretLength |-> "k"]
ShortSecret == <<"s", "e", "c", "r", "e", "t">>

\* every key set
FullEnv ==
    [k \in Keys |->
        CASE k = "PORT" -> ValidPort
          [] k = "BETTER_AUTH_SECRET" -> LongSecret
          [] k = "RATE_LIMIT_WINDOW_MS" -> <<"6", "0", "0", "0", "0">>
          [] k = "RATE_LIMIT_MAX_REQUESTS" -> <<"2">>
          [] k = "SMTP_FROM" -> <<"mailer@example.com">>
          [] OTHER -> <<"set">>]

\* the other values a key is tried with
AltValues(k) ==
    {Undefined, Empty} \cup
    (IF k = "PORT"
     THEN {<<"7", "0", "0", "0", "0">>, <<"a", "b", "c">>, <<"0">>, <<"-", "1">>,
           <<"6", "5", "5", "3", "5">>, <<"6", "5", "5", "3", "6">>,
           <<"8", "0", "x">>, <<" ", "8", "0">>}
     ELSE {}) \cup
    (IF k = "BETTER_AUTH_SECRET" THEN {ShortSecret} ELSE {})

RECURSIVE Envs(_)
\* the environments that differ from FullEnv in at most n keys
Envs(n) ==
    IF n = 0 THEN {FullEnv}
    ELSE LET prev == Envs(n - 1)
         IN  prev \cup {[e EXCEPT ![k] = v] : e \in prev, <<k, v>> \in
                          UNION {{<<k2, v2>> : v2 \in AltValues(k2)} : k2 \in Keys}}

-----------------------------------------------------------------------------
(* Process state *)

NoExit == [code |-> -1, cause |-> "none"]
NoResp == [route |-> "none"]
NoHttp == [stage |-> "none"]

\* the source addresses requests come from
Ips == {"10.0.0.1", "10.0.0.2"}

\* no request counted, no user stored, no request served
InitEdge ==
    /\ hits = [ip \in Ips |-> 0]
    /\ users = {}
    /\ http = NoHttp

Routes == {"health", "live", "ready"}
Origins == {"sigint", "shutdown"}

Running == pc # "exited"

Total(bag) == bag["health"] + bag["live"] + bag["ready"]

InitLife ==
    /\ pc = "load_env"
    /\ exit = NoExit
    /\ sigintDb = FALSE
    /\ installed = FALSE
    /\ readyState = 0
    /\ attempts = 0
    /\ connectResult = "none"
    /\ server = "none"
    /\ inflight = [r \in Routes |-> 0]
    /\ lastResp = NoResp
    /\ closeCbs = 0
    /\ timers = {}
    /\ elapsed = 0
    /\ dbClosers = [o \in Origins |-> 0]
    /\ dbCloseSeen = FALSE
    /\ triggers = 0
    /\ lastClose = "none"
    /\ cfg = NoCfg
    /\ InitEdge

\* process.exit(code), or the death of the process
Exit(code, cause) ==
    /\ pc' = "exited"
    /\ exit' = [code |-> code, cause |-> cause]

-----------------------------------------------------------------------------
(* Start-up: src/index.ts *)

\* import "./config/env.js": a throw while a module is evaluated is an uncaught
\* exception before any handler exists, and ends the process with code 1
LoadConfigEnv ==
    /\ pc = "load_env"
    /\ IF ConfigEnvThrows(env)
       THEN Exit(1, "env")
       ELSE pc' = "load_modules" /\ exit' = exit
    /\ cfg' = [cfg EXCEPT !.configEnv = ConfigEnvExports(env)]
    /\ UNCHANGED <<env, sigintDb, installed, readyState, attempts, connectResult,
                   server, inflight, lastResp, closeCbs, timers, elapsed, dbClosers,
                   dbCloseSeen, triggers, areq, lastClose, edgeVars>>

\* the remaining imports of index.ts: helpers/auth/auth.ts evaluates
\* utils/envConfig.ts, and config/database.ts registers its SIGINT handler
LoadModules ==
    /\ pc = "load_modules"
    /\ IF EnvConfigThrows(env)
       THEN Exit(1, "env") /\ sigintDb' = sigintDb
       ELSE pc' = "start" /\ exit' = exit /\ sigintDb' = TRUE
    /\ cfg' = [cfg EXCEPT !.envConfig = EnvConfigExports(env)]
    /\ UNCHANGED <<env, installed, readyState, attempts, connectResult,
                   server, inflight, lastResp, closeCbs, timers, elapsed, dbClosers,
                   dbCloseSeen, triggers, areq, lastClose, edgeVars>>

\* startServer calls createApp, which awaits connectDb(MONGO_URI):
\* mongoose.connect starts the one connection attempt
StartServer ==
    /\ pc = "start"
    /\ pc' = "connecting"
    /\ readyState' = 2
    /\ attempts' = attempts + 1
    /\ UNCHANGED <<env, exit, sigintDb, installed, connectResult,
                   server, inflight, lastResp, closeCbs, timers, elapsed, dbClosers,
                   dbCloseSeen, triggers, areq, lastClose, cfg, edgeVars>>

\* app.listen(PORT, ...) and setupGracefulShutdown(server), in one tick
Listen ==
    /\ pc' = "running"
    /\ server' = "listening"
    /\ installed' = TRUE

\* mongoose.connect resolves: connectDb returns, createApp returns the app and
\* startServer goes on without leaving the tick
ConnectOk ==
    /\ pc = "connecting"
    /\ readyState = 2
    /\ readyState' = 1
    /\ connectResult' = "ok"
    /\ Listen
    /\ UNCHANGED <<env, exit, sigintDb, attempts,
                   inflight, lastResp, closeCbs, timers, elapsed, dbClosers,
                   dbCloseSeen, triggers, areq, lastClose, cfg, edgeVars>>

\* a connectDb whose catch block tries again
OnConnectErrorRetry == "retry"

\* the catch block of connectDb: process.exit(1)
OnConnectError == "exit"

\* mongoose.connect rejects
ConnectFail ==
    /\ pc = "connecting"
    /\ connectResult' = "failed"
    /\ CASE OnConnectError = "exit" ->
              /\ Exit(1, "connect")
              /\ readyState' = 0
              /\ attempts' = attempts
         [] OnConnectError = "retry" ->
              /\ attempts < 3
              /\ attempts' = attempts + 1
              /\ readyState' = 2
              /\ UNCHANGED <<pc, exit>>
    /\ UNCHANGED <<env, sigintDb, installed, server,
                   inflight, lastResp, closeCbs, timers, elapsed, dbClosers,
                   dbCloseSeen, triggers, areq, lastClose, cfg, edgeVars>>

-----------------------------------------------------------------------------
(* Health probes: src/routes/health.routes.ts *)

\* neither reading readyState nor sending a literal body throws, so the catch
\* blocks of the probes are entered for no request
ProbeThrows == {FALSE}

\* a readiness probe that answers 200 whatever the connector says
ReadyHandlerAlways(rs, threw) ==
    [route |-> "ready", status |-> 200, body |-> [status |-> "ready"], db |-> rs]

\* GET /health/ready
ReadyHandler(rs, threw) ==
    IF threw
    THEN [route |-> "ready", status |-> 503,
          body |-> [status |-> "not ready", error |-> "health check failed"], db |-> rs]
    ELSE LET dbReady == rs = 1
         IN  IF dbReady
             THEN [route |-> "ready", status |-> 200, body |-> [status |-> "ready"],
                   db |-> rs]
             ELSE [route |-> "ready", status |-> 503,
                   body |-> [status |-> "not ready", reason |-> "database not connected"],
                   db |-> rs]

\* a liveness probe that looks at the connector
LiveHandlerDb(rs) ==
    [route |-> "live", status |-> IF rs = 1 THEN 200 ELSE 503,
     body |-> [status |-> "alive"], db |-> rs]

\* GET /health/live
LiveHandler(rs) ==
    [route |-> "live", status |-> 200, body |-> [status |-> "alive"], db |-> rs]

\* a full health check that treats a connecting connector as connected
HealthHandlerLoose(rs, e, threw) ==
    LET database == IF rs \in {1, 2} THEN "connected" ELSE "disconnected"
    IN  [route |-> "health", status |-> IF rs # 0 THEN 200 ELSE 503,
         body |-> [message |-> "OK", environment |-> OrElse(e["NODE_ENV"], <<"development">>),
                   services |-> [database |-> database]],
         db |-> rs]

\* GET /health (uptime and timestamp, two clock readings, are left out of the body)
HealthHandler(rs, e, threw) ==
    LET environment == OrElse(e["NODE_ENV"], <<"development">>)
    IN  IF threw
        THEN [route |-> "health", status |-> 503,
              body |-> [message |-> "Error checking services", environment |-> environment,
                        services |-> [database |-> "unknown"]],
              db |-> rs]
        ELSE LET database == IF rs = 1 THEN "connected" ELSE "disconnected"
                 statusCode == IF database = "connected" THEN 200 ELSE 503
             IN  [route |-> "health", status |-> statusCode,
                  body |-> [message |-> "OK", environment |-> environment,
                            services |-> [database |-> database]],
                  db |-> rs]

\* the response of a route; db records the connector state the handler saw
Respond(r, rs, e, threw) ==
    CASE r = "health" -> HealthHandler(rs, e, threw)
      [] r = "live" -> LiveHandler(rs)
      [] r = "ready" -> ReadyHandler(rs, threw)

\* a handler whose catch branch runs after its try branch has answered
SendsTwice(r, rs, e, threw) == <<Respond(r, rs, e, FALSE), Respond(r, rs, e, TRUE)>>

\* the res.status(..).json(..) calls made by the handler of route r, in order:
\* each branch of each probe ends in one such call
Sends(r, rs, e, threw) == <<Respond(r, rs, e, threw)>>

\* the server accepts a request
Arrive(r) ==
    /\ Running
    /\ server = "listening"
    /\ Total(inflight) < MaxInflight
    /\ inflight' = [inflight EXCEPT ![r] = @ + 1]
    /\ UNCHANGED <<env, pc, exit, sigintDb, installed, readyState, attempts,
                   connectResult, server, lastResp, closeCbs, timers, elapsed,
                   dbClosers, dbCloseSeen, triggers, areq, lastClose, cfg, edgeVars>>

\* the handler of an accepted request runs and sends its response
Handle(r) ==
    /\ Running
    /\ inflight[r] > 0
    /\ \E threw \in ProbeThrows :
          LET out == Sends(r, readyState, env, threw)
          IN  lastResp' = out[Len(out)]
    /\ inflight' = [inflight EXCEPT ![r] = @ - 1]
    /\ UNCHANGED <<env, pc, exit, sigintDb, installed, readyState, attempts,
                   connectResult, server, closeCbs, timers, elapsed,
                   dbClosers, dbCloseSeen, triggers, areq, lastClose, cfg, edgeVars>>

-----------------------------------------------------------------------------
(* The connector after start-up: mongoose keeps readyState up to date *)

\* the connection is lost ("disconnected" event)
DbDrop ==
    /\ Running
    /\ readyState = 1
    /\ readyState' = 0
    /\ UNCHANGED <<env, pc, exit, sigintDb, installed, attempts, connectResult,
                   server, inflight, lastResp, closeCbs, timers, elapsed,
                   dbClosers, dbCloseSeen, triggers, areq, lastClose, cfg, edgeVars>>

\* the driver reconnects ("connected" event)
DbReconnect ==
    /\ Running
    /\ readyState = 0
    /\ connectResult = "ok"
    /\ ~dbCloseSeen
    /\ readyState' = 1
    /\ UNCHANGED <<env, pc, exit, sigintDb, installed, attempts, connectResult,
                   server, inflight, lastResp, closeCbs, timers, elapsed,
                   dbClosers, dbCloseSeen, triggers, areq, lastClose, cfg, edgeVars>>

-----------------------------------------------------------------------------
(* Shutdown: utils/gracefulShutdown.ts and the SIGINT handler of config/database.ts *)

GraceMs == 10000

Kinds == {"SIGINT", "SIGTERM", "uncaughtException", "unhandledRejection"}

\* how the process ends when nothing handles the event
DefaultExitCode(kind) ==
    CASE kind = "SIGINT" -> 128 + 2
      [] kind = "SIGTERM" -> 128 + 15
      [] OTHER -> 1

\* mongoose.connection.close() on a connection in state rs
BeginClose(rs) == IF rs \in {1, 2} THEN 3 ELSE rs

\* a shutdown that re-arms one single timer on every call
ShutdownTimersReset(ts, now) == {now + GraceMs}

\* setTimeout(..., 10000) of shutdown: one more timer, none is ever cleared
ShutdownTimers(ts, now) == ts \cup {now + GraceMs}

\* a server.close callback that reports a failed disconnect
ShutdownExitCodeStrict(ok) == IF ok THEN 0 ELSE 1

\* the exit code of the server.close callback: disconnectDb catches its own
\* error, so the callback's catch block is never entered
ShutdownExitCode(ok) == 0

\* shutdown(signal)
CallShutdown ==
    /\ server' = IF server = "listening" THEN "closing" ELSE server
    /\ closeCbs' = closeCbs + 1
    /\ timers' = ShutdownTimers(timers, elapsed)

\* a signal or a fatal error is delivered to the process
Trigger(kind) ==
    /\ Running
    /\ triggers < MaxTriggers
    /\ triggers' = triggers + 1
    /\ LET dbHandler == kind = "SIGINT" /\ sigintDb
       IN  IF ~dbHandler /\ ~installed
           THEN /\ Exit(DefaultExitCode(kind), "unhandled")
                /\ UNCHANGED <<dbClosers, readyState, dbCloseSeen, server, closeCbs, timers>>
           ELSE /\ UNCHANGED <<pc, exit>>
                /\ IF dbHandler
                   THEN /\ dbClosers' = [dbClosers EXCEPT !["sigint"] = @ + 1]
                        /\ readyState' = BeginClose(readyState)
                        /\ dbCloseSeen' = TRUE
                   ELSE UNCHANGED <<dbClosers, readyState, dbCloseSeen>>
                /\ IF installed
                   THEN CallShutdown
                   ELSE UNCHANGED <<server, closeCbs, timers>>
    /\ UNCHANGED <<env, sigintDb, installed, attempts, connectResult, inflight,
                   lastResp, elapsed, areq, lastClose, cfg, edgeVars>>

\* a callback that starts disconnectDb() and goes on without waiting for it
ShutdownCallbackDetached == "detached"

\* the callback of server.close: await disconnectDb(), then process.exit
ShutdownCallback == "await"

\* the server emits "close": it accepts nothing and its last connection has
\* ended; every registered callback runs up to its await of disconnectDb()
ServerClosed ==
    /\ Running
    /\ server \in {"closing", "closed"}
    /\ closeCbs > 0
    /\ Total(inflight) = 0
    /\ server' = "closed"
    /\ closeCbs' = 0
    /\ readyState' = BeginClose(readyState)
    /\ dbCloseSeen' = TRUE
    /\ IF ShutdownCallback = "await"
       THEN /\ dbClosers' = [dbClosers EXCEPT !["shutdown"] = @ + closeCbs]
            /\ UNCHANGED <<pc, exit>>
       ELSE /\ Exit(0, "shutdown")
            /\ UNCHANGED dbClosers
    /\ UNCHANGED <<env, sigintDb, installed, attempts, connectResult,
                   inflight, lastResp, timers, elapsed, triggers, areq, lastClose, cfg, edgeVars>>

\* a pending mongoose.connection.close() settles
DbCloseSettle(o, ok) ==
    /\ Running
    /\ dbClosers[o] > 0
    /\ dbClosers' = [dbClosers EXCEPT ![o] = @ - 1]
    /\ readyState' = IF ok THEN 0 ELSE readyState
    /\ lastClose' = IF ok THEN "ok" ELSE "failed"
    /\ CASE o = "shutdown" ->
              \* disconnectDb returns; the callback calls process.exit
              /\ Exit(ShutdownExitCode(ok), "shutdown")
              /\ UNCHANGED <<server, closeCbs, timers>>
         [] o = "sigint" /\ ok ->
              /\ Exit(0, "sigint_db")
              /\ UNCHANGED <<server, closeCbs, timers>>
         [] o = "sigint" /\ ~ok ->
              \* the async handler rejects: an unhandled rejection
              IF installed
              THEN CallShutdown /\ UNCHANGED <<pc, exit>>
              ELSE Exit(1, "unhandled") /\ UNCHANGED <<server, closeCbs, timers>>
    /\ UNCHANGED <<env, sigintDb, installed, attempts, connectResult, inflight,
                   lastResp, elapsed, dbCloseSeen, triggers, areq, cfg, edgeVars>>

\* time passes during shutdown; a timer that is due fires before more time passes
Tick ==
    /\ Running
    /\ timers # {}
    /\ \A d \in timers : d > elapsed
    /\ elapsed' = elapsed + TickMs
    /\ UNCHANGED <<env, pc, exit, sigintDb, installed, readyState, attempts,
                   connectResult, server, inflight, lastResp, closeCbs, timers,
                   dbClosers, dbCloseSeen, triggers, areq, lastClose, cfg, edgeVars>>

\* a shutdown timer fires: process.exit(1)
TimerFire ==
    /\ Running
    /\ \E d \in timers : d <= elapsed
    /\ Exit(1, "timer")
    /\ UNCHANGED <<env, sigintDb, installed, readyState, attempts,
                   connectResult, server, inflight, lastResp, closeCbs, timers,
                   elapsed, dbClosers, dbCloseSeen, triggers, areq, lastClose, cfg, edgeVars>>

-----------------------------------------------------------------------------
(* Authentication middleware: middlewares/authMiddleware.ts *)

Null == [null |-> TRUE]
NoUser == [attached |-> FALSE]
NoError == [type |-> "none"]
NoOutcome == [kind |-> "none"]

\* the users the auth engine knows, with the fields it keeps beside the identity
Alice == [id |-> "u1", email |-> "alice@example.com", name |-> "Alice",
          emailVerified |-> TRUE, role |-> "PHARMACIST"]
Bob == [id |-> "u2", email |-> "bob@example.com", name |-> "Bob",
        emailVerified |-> FALSE, role |-> "PHARMACIST"]

\* the session cookies a request may carry
Tokens == {"none", "alice", "bob", "orphan", "stale"}

\* a getSession that answers every cookie it knows from one shared session
GetSessionShared(headers) ==
    IF headers.cookie \in {"alice", "bob"} THEN [user |-> Alice] ELSE Null

\* auth.api.getSession({headers}) when it returns: the session of the cookie,
\* null without one; "orphan" stands for a session object without a user
GetSession(headers) ==
    CASE headers.cookie = "alice" -> [user |-> Alice]
      [] headers.cookie = "bob" -> [user |-> Bob]
      [] headers.cookie = "orphan" -> [user |-> Null]
      [] OTHER -> Null

\* what the engine throws when it fails; ErrorResponse is a class of the
\* application, which the engine never constructs
EngineErrors ==
    {[type |-> "APIError", message |-> "INTERNAL_SERVER_ERROR", statusCode |-> 500,
      site |-> "engine"],
     [type |-> "Error", message |-> "connect ECONNREFUSED", site |-> "engine"]}

\* the ways the awaited getSession call can end for a request
Outcomes(headers) ==
    {[kind |-> "return", session |-> GetSession(headers)]} \cup
    {[kind |-> "throw", error |-> e] : e \in EngineErrors}

AllOutcomes == UNION {Outcomes([cookie |-> t]) : t \in Tokens}

\* new ErrorResponse("Unauthorized access", 401), built at the given place
Unauthorized(site) ==
    [type |-> "ErrorResponse", message |-> "Unauthorized access", statusCode |-> 401,
     site |-> site]

\* a catch block that wraps whatever it caught
CatchClauseWrapAll(error) == Unauthorized("catch")

\* a catch block that forwards whatever it caught
CatchClauseForwardAll(error) == error

\* the catch block: the argument passed to next
CatchClause(error) ==
    IF error.type = "ErrorResponse" THEN error ELSE Unauthorized("catch")

\* the identity attached to the request
Identity(user) == [id |-> user.id, email |-> user.email, name |-> user.name]

\* a middleware that attaches the user record as the engine returned it
AuthenticateUserWholeUser(req, out) ==
    IF out.kind = "return" /\ out.session # Null /\ out.session.user # Null
    THEN [req |-> [req EXCEPT !.user = out.session.user], nexts |-> <<NoError>>]
    ELSE [req |-> req, nexts |-> <<Unauthorized("try")>>]

\* a middleware that reads the session with session?.user?.id and so lets a
\* request without a session through, with no identity
AuthenticateUserOptionalChaining(req, out) ==
    IF out.kind = "throw"
    THEN [req |-> req, nexts |-> <<CatchClause(out.error)>>]
    ELSE [req |-> IF out.session = Null \/ out.session.user = Null THEN req
                  ELSE [req EXCEPT !.user = Identity(out.session.user)],
          nexts |-> <<NoError>>]

\* authenticateUser from the point where getSession has settled with out:
\* the request as the middleware leaves it and the calls of next it makes
AuthenticateUser(req, out) ==
    LET thrown ==
            IF out.kind = "throw" THEN out.error
            ELSE IF out.session = Null \/ out.session.user = Null
                 THEN Unauthorized("try")
                 ELSE NoError
    IN  IF thrown = NoError
        THEN [req |-> [req EXCEPT !.user = Identity(out.session.user)],
              nexts |-> <<NoError>>]
        ELSE [req |-> req, nexts |-> <<CatchClause(thrown)>>]

\* what the protected handler does when next() reaches it
Downstream == {"returns", "throws"}

HandlerError == [type |-> "Error", message |-> "handler failed", site |-> "handler"]

\* a next() that lets the failure of the handler out to its caller
NextCallPropagates(down) ==
    [threw |-> down = "throws", error |-> HandlerError, errorStage |-> FALSE]

\* the call next() at line 30: Express runs the handler inside its own
\* try/catch and hands a failure to the error stage, so the call returns
NextCall(down) ==
    [threw |-> FALSE, error |-> HandlerError, errorStage |-> down = "throws"]

\* next() is called inside the try block: were it to throw, the catch block
\* would call next a second time
TryNext(nexts, down) ==
    IF nexts = <<NoError>> /\ NextCall(down).threw
    THEN nexts \o <<CatchClause(NextCall(down).error)>>
    ELSE nexts

\* Express: next() runs the protected handler, next(err) the error stage
HandlerRuns(nexts) == Cardinality({n \in DOMAIN nexts : nexts[n] = NoError})

IdleSlot == [stage |-> "idle"]

NewRequest(token, body) == [headers |-> [cookie |-> token], body |-> body, user |-> NoUser]

Bodies == {"b1", "b2"}

\* a request reaches the middleware, which calls getSession and awaits it
AuthStart(i, token, body) ==
    /\ pc = "running"
    /\ areq[i].stage = "idle"
    /\ areq' = [areq EXCEPT ![i] =
                  [stage |-> "resolving", orig |-> NewRequest(token, body),
                   req |-> NewRequest(token, body), outcome |-> NoOutcome,
                   nexts |-> <<>>, handled |-> 0, down |-> "not reached"]]
    /\ UNCHANGED <<lifeVars, edgeVars>>

\* getSession settles and the rest of the middleware runs
AuthResolve(i, out, down) ==
    /\ pc = "running"
    /\ areq[i].stage = "resolving"
    /\ out \in Outcomes(areq[i].req.headers)
    /\ LET r == AuthenticateUser(areq[i].req, out)
           nexts == TryNext(r.nexts, down)
       IN  areq' = [areq EXCEPT ![i] =
                      [@ EXCEPT !.stage = "done", !.req = r.req, !.outcome = out,
                                !.nexts = nexts, !.handled = HandlerRuns(nexts),
                                !.down = IF r.nexts = <<NoError>> THEN down
                                         ELSE "not reached"]]
    /\ UNCHANGED <<lifeVars, edgeVars>>

\* the response of the request is complete
AuthRelease(i) ==
    /\ pc = "running"
    /\ areq[i].stage = "done"
    /\ areq' = [areq EXCEPT ![i] = IdleSlot]
    /\ UNCHANGED <<lifeVars, edgeVars>>

\* the process once start-up has succeeded, whatever its environment
RunningState ==
    /\ pc = "running"
    /\ exit = NoExit
    /\ sigintDb = TRUE
    /\ installed = TRUE
    /\ readyState = 1
    /\ attempts = 1
    /\ connectResult = "ok"
    /\ server = "listening"
    /\ inflight = [r \in Routes |-> 0]
    /\ lastResp = NoResp
    /\ closeCbs = 0
    /\ timers = {}
    /\ elapsed = 0
    /\ dbClosers = [o \in Origins |-> 0]
    /\ dbCloseSeen = FALSE
    /\ triggers = 0
    /\ lastClose = "none"
    /\ cfg = [configEnv |-> ConfigEnvExports(env), envConfig |-> EnvConfigExports(env)]
    /\ InitEdge

\* the process once start-up has succeeded
RunningLife ==
    /\ env = FullEnv
    /\ RunningState

InitAuth ==
    /\ RunningLife
    /\ areq = [i \in 1..MaxAuthReqs |-> IdleSlot]

NextAuth ==
    \/ \E i \in 1..MaxAuthReqs, token \in Tokens, body \in Bodies : AuthStart(i, token, body)
    \/ \E i \in 1..MaxAuthReqs, out \in AllOutcomes, down \in Downstream :
          AuthResolve(i, out, down)
    \/ \E i \in 1..MaxAuthReqs : AuthRelease(i)

SpecAuth == InitAuth /\ [][NextAuth]_vars

-----------------------------------------------------------------------------
(* The middleware chain: rate limiter, routers, handlers, error stage *)

MaxHits == 4

\* RATE_LIMIT_MAX_REQUESTS of utils/envConfig.ts
RateLimitMaxRequests(e) ==
    ParseInt(OrElse(e["RATE_LIMIT_MAX_REQUESTS"], <<"4", "0", "0">>))

\* a response: status code and body
TooManyRequests ==
    [status |-> 429, body |-> <<"Too many requests, please try again later.">>]

\* a limiter that turns away the request that reaches the maximum
RateLimitEager(h, ip, max) ==
    LET n == h[ip] + 1
    IN  [hits |-> [h EXCEPT ![ip] = n], limited |-> ~max.nan /\ n >= max.val]

\* the rate limiter: every request of an address is counted, and a request
\* whose count is above the maximum is turned away
RateLimit(h, ip, max) ==
    LET n == h[ip] + 1
    IN  [hits |-> [h EXCEPT ![ip] = n], limited |-> ~max.nan /\ n > max.val]

\* new SuccessResponse(message, data, statusCode).send(res)
SuccessResponse(message, data, statusCode) ==
    [status |-> statusCode,
     body |-> [success |-> TRUE, message |-> message, statusCode |-> statusCode,
               data |-> data]]

\* new ErrorResponse(message, statusCode), thrown or passed to next
ErrorResponse(message, statusCode) ==
    [type |-> "ErrorResponse", message |-> message, statusCode |-> statusCode,
     site |-> "handler"]

\* what a failing database call throws inside a handler
DriverError ==
    [type |-> "MongoServerError", message |-> "connect ECONNREFUSED 127.0.0.1:27017",
     stack |-> "MongoServerError: connect ECONNREFUSED\n    at Connection.onError",
     site |-> "driver"]

NoDetail == [none |-> TRUE]

\* NODE_ENV as the server reads it
Production(e) == OrElse(e["NODE_ENV"], <<"development">>) = <<"production">>

\* an error stage that reports what it caught in every environment
ErrorStageVerbose(err, e) ==
    LET statusCode == IF err.type = "ErrorResponse" THEN err.statusCode ELSE 500
    IN  [status |-> statusCode,
         body |-> [success |-> FALSE, message |-> err.message, statusCode |-> statusCode,
                   detail |-> [type |-> err.type, site |-> err.site]]]

\* the centralized error stage: an application error keeps its status code and
\* message, anything else becomes a 500; in production the message of an
\* unrecognized error is replaced and no detail is sent
ErrorStage(err, e) ==
    LET recognized == err.type = "ErrorResponse"
        statusCode == IF recognized THEN err.statusCode ELSE 500
        message == IF recognized \/ ~Production(e) THEN err.message
                   ELSE "Internal server error"
    IN  [status |-> statusCode,
         body |-> [success |-> FALSE, message |-> message, statusCode |-> statusCode,
                   detail |-> IF Production(e) THEN NoDetail
                              ELSE [type |-> err.type, site |-> err.site]]]

\* the framework's answer when no route matches
NotFound == [status |-> 404, body |-> <<"Cannot find the route">>]

\* routes/health.routes.ts: router.get("/"), router.get("/live"), router.get("/ready")
HealthRoutes(method, rest) ==
    IF method # "GET" THEN "none"
    ELSE CASE rest = <<>> -> "health"
           [] rest = <<"live">> -> "live"
           [] rest = <<"ready">> -> "ready"
           [] OTHER -> "none"

\* routes/auth.routes.ts: router.all("/*", ..) matches every method and path
AuthRoutes(method, rest) == "auth.handler"

\* routes/api.routes.ts, by the README's table of example routes
ApiRoutes(method, rest) ==
    CASE method = "POST" /\ rest = <<"users">> -> "createUser"
      [] method = "GET" /\ rest = <<"profile">> -> "profile"
      [] OTHER -> "none"

\* the main router: the handler a path (a sequence of segments) is dispatched to
MainRouter(method, path) ==
    IF path = <<>> THEN "none"
    ELSE CASE Head(path) = "health" -> HealthRoutes(method, Tail(path))
           [] Head(path) = "api" -> ApiRoutes(method, Tail(path))
           [] Head(path) = "auth" -> AuthRoutes(method, Tail(path))
           [] OTHER -> "none"

NoBody == [email |-> Undefined, name |-> Undefined, password |-> Undefined]

\* emailAndPassword.minPasswordLength
MinPasswordLength == 8

\* auth.handler: the engine's sign-up applies the declared password policy
\* before it stores the user; its other endpoints answer on their own
EngineHandler(method, rest, body, us) ==
    IF method = "POST" /\ rest = <<"sign-up", "email">>
    THEN IF ~Truthy(body.password) \/ Len(body.password) < MinPasswordLength
         THEN [sends |-> <<[status |-> 400, body |-> <<"PASSWORD_TOO_SHORT">>]>>,
               users |-> us, ran |-> "auth.handler", errors |-> <<>>]
         ELSE [sends |-> <<[status |-> 200, body |-> <<"user">>]>>,
               users |-> us \cup {body.email}, ran |-> "auth.handler", errors |-> <<>>]
    ELSE [sends |-> <<[status |-> 200, body |-> <<"engine">>]>>,
          users |-> us, ran |-> "auth.handler", errors |-> <<>>]

\* asyncHandler: an error the handler throws is passed to next, the error stage
AsyncHandler(thrown, us, e) ==
    [sends |-> <<ErrorStage(thrown, e)>>, users |-> us, ran |-> "createUser",
     errors |-> <<thrown>>]

\* POST /users of the README: the fields must be present and the user new;
\* dbOk tells whether the awaited User.findOne resolves or rejects
CreateUser(body, us, e, dbOk) ==
    IF ~Truthy(body.email) \/ ~Truthy(body.name) \/ ~Truthy(body.password)
    THEN AsyncHandler(ErrorResponse("Missing required fields", 400), us, e)
    ELSE IF ~dbOk
         THEN AsyncHandler(DriverError, us, e)
         ELSE IF body.email \in us
              THEN AsyncHandler(ErrorResponse("User already exists", 409), us, e)
              ELSE [sends |-> <<SuccessResponse("User created successfully",
                                                [email |-> body.email], 201)>>,
                    users |-> us \cup {body.email}, ran |-> "createUser",
                    errors |-> <<>>]

\* GET /profile of the README, behind authenticateUser: next() runs the
\* handler, next(err) the error stage
Profile(cookie, out, us, e) ==
    LET a == AuthenticateUser(NewRequest(cookie, NoBody), out)
    IN  [sends |-> [n \in DOMAIN a.nexts |->
                      IF a.nexts[n] = NoError
                      THEN SuccessResponse("Profile retrieved", a.req.user, 200)
                      ELSE ErrorStage(a.nexts[n], e)],
         users |-> us,
         ran |-> IF HandlerRuns(a.nexts) > 0 THEN "profile" ELSE "none",
         errors |-> SelectSeq(a.nexts, LAMBDA x : x # NoError)]

ShortPassword == <<"x">>
GoodPassword == <<"p", "a", "s", "s", "w", "o", "r", "d">>

NewUser(password) == [email |-> <<"a@b.com">>, name |-> <<"A">>, password |-> password]

Get(path, cookie) == [method |-> "GET", path |-> path, cookie |-> cookie, body |-> NoBody]
Post(path, body) == [method |-> "POST", path |-> path, cookie |-> "none", body |-> body]

\* the requests the server is sent
Requests ==
    {Get(<<"health">>, "none"), Get(<<"health", "live">>, "none"),
     Get(<<"health", "ready">>, "none"), Get(<<"unknown">>, "none"),
     Get(<<"api", "profile">>, "none"), Get(<<"api", "profile">>, "alice"),
     Get(<<"api", "profile">>, "stale"),
     Get(<<"api", "auth", "get-session">>, "alice"),
     Get(<<"auth", "get-session">>, "alice"),
     Post(<<"api", "auth", "sign-up", "email">>, NewUser(GoodPassword)),
     Post(<<"auth", "sign-up", "email">>, NewUser(ShortPassword)),
     Post(<<"auth", "sign-up", "email">>, NewUser(GoodPassword)),
     Post(<<"api", "users">>, NewUser(ShortPassword)),
     Post(<<"api", "users">>, NewUser(GoodPassword)),
     Post(<<"api", "users">>, [NewUser(GoodPassword) EXCEPT !.name = Undefined])}

\* the handler the request was dispatched to runs; out is how getSession ends
\* on a protected route, dbOk how the handler's database call ends
Dispatch(target, req, out, dbOk, rs, e, us) ==
    CASE target \in Routes ->
           [sends |-> Sends(target, rs, e, FALSE), users |-> us, ran |-> target,
            errors |-> <<>>]
      [] target = "auth.handler" ->
           EngineHandler(req.method, Tail(req.path), req.body, us)
      [] target = "createUser" -> CreateUser(req.body, us, e, dbOk)
      [] target = "profile" -> Profile(req.cookie, out, us, e)
      [] OTHER -> [sends |-> <<NotFound>>, users |-> us, ran |-> "none",
                   errors |-> <<>>]

\* the ways the database call of a handler can end
DbResults(target) == IF target = "createUser" THEN BOOLEAN ELSE {TRUE}

\* a request passes the rate limiter and, when it is let through, the main
\* router and the handler it is dispatched to
Serve(ip, req, out) ==
    /\ pc = "running"
    /\ hits[ip] < MaxHits
    /\ out \in Outcomes([cookie |-> req.cookie])
    /\ out.kind = "return" \/ MainRouter(req.method, req.path) = "profile"
    /\ \E dbOk \in DbResults(MainRouter(req.method, req.path)) :
          LET rl == RateLimit(hits, ip, RateLimitMaxRequests(env))
              target == MainRouter(req.method, req.path)
              res == IF rl.limited
                     THEN [sends |-> <<TooManyRequests>>, users |-> users,
                           ran |-> "none", errors |-> <<>>]
                     ELSE Dispatch(target, req, out, dbOk, readyState, env, users)
          IN  /\ hits' = rl.hits
              /\ users' = res.users
              /\ http' = [stage |-> "done", ip |-> ip, req |-> req,
                          before |-> hits[ip], limited |-> rl.limited,
                          target |-> IF rl.limited THEN "none" ELSE target,
                          ran |-> res.ran, sends |-> res.sends,
                          errors |-> res.errors, usersBefore |-> users]
    /\ UNCHANGED <<lifeVars, areq>>

\* the rate-limit window of an address ends
WindowExpires(ip) ==
    /\ pc = "running"
    /\ hits[ip] > 0
    /\ hits' = [hits EXCEPT ![ip] = 0]
    /\ UNCHANGED <<lifeVars, areq, users, http>>

\* the environments the requests are served in
HttpEnvs == {FullEnv, [FullEnv EXCEPT !["NODE_ENV"] = <<"production">>]}

InitHttp ==
    /\ env \in HttpEnvs
    /\ RunningState
    /\ areq = <<>>

NextHttp ==
    \/ \E ip \in Ips, req \in Requests, out \in AllOutcomes : Serve(ip, req, out)
    \/ \E ip \in Ips : WindowExpires(ip)

SpecHttp == InitHttp /\ [][NextHttp]_vars

-----------------------------------------------------------------------------
(* The process *)

\* the environments the whole life of the process is followed from
BaseEnvs ==
    {FullEnv,
     [FullEnv EXCEPT !["NODE_ENV"] = Undefined],
     [FullEnv EXCEPT !["SMTP_USER"] = Undefined],
     [FullEnv EXCEPT !["MONGO_URI"] = Empty]}

Init ==
    /\ env \in BaseEnvs
    /\ InitLife
    /\ areq = <<>>

\* start-up from every environment of the bound
InitBoot ==
    /\ env \in Envs(MaxUnset)
    /\ InitLife
    /\ areq = <<>>

\* start-up and service, without signals and fatal errors
NextBoot ==
    \/ LoadConfigEnv
    \/ LoadModules
    \/ StartServer
    \/ ConnectOk
    \/ ConnectFail
    \/ \E r \in Routes : Arrive(r)
    \/ \E r \in Routes : Handle(r)
    \/ DbDrop
    \/ DbReconnect

Next ==
    \/ NextBoot
    \/ \E kind \in Kinds : Trigger(kind)
    \/ ServerClosed
    \/ \E o \in Origins, ok \in BOOLEAN : DbCloseSettle(o, ok)
    \/ Tick
    \/ TimerFire

Spec == Init /\ [][Next]_vars

\* config/env.ts is evaluated on its own
EvalConfigEnv ==
    /\ pc = "load_env"
    /\ cfg.configEnv = NotLoaded
    /\ cfg' = [cfg EXCEPT !.configEnv = ConfigEnvExports(env)]
    /\ UNCHANGED <<env, pc, exit, sigintDb, installed, readyState, attempts,
                   connectResult, server, inflight, lastResp, closeCbs, timers, elapsed,
                   dbClosers, dbCloseSeen, triggers, areq, lastClose, edgeVars>>

\* utils/envConfig.ts is evaluated on its own
EvalEnvConfig ==
    /\ pc = "load_env"
    /\ cfg.envConfig = NotLoaded
    /\ cfg' = [cfg EXCEPT !.envConfig = EnvConfigExports(env)]
    /\ UNCHANGED <<env, pc, exit, sigintDb, installed, readyState, attempts,
                   connectResult, server, inflight, lastResp, closeCbs, timers, elapsed,
                   dbClosers, dbCloseSeen, triggers, areq, lastClose, edgeVars>>

NextEnv == EvalConfigEnv \/ EvalEnvConfig

InitEnv ==
    /\ env \in Envs(MaxUnsetEnv)
    /\ InitLife
    /\ areq = <<>>

\* the two environment modules, each evaluated in every environment of the bound
SpecEnv == InitEnv /\ [][NextEnv]_vars

SpecBoot == InitBoot /\ [][NextBoot]_vars

\* timers are run when due and time passes (the Node.js event loop)
FairSpec == Spec /\ WF_vars(Tick) /\ WF_vars(TimerFire)

-----------------------------------------------------------------------------
(* Properties of the authentication middleware *)

Slots == 1..MaxAuthReqs
Done(i) == areq[i].stage = "done"

\* session resolution gave nothing to authenticate the request with
NoValidSession(out) ==
    \/ out.kind = "throw"
    \/ out.session = Null
    \/ out.session.user = Null

C2_IdentityAttachedIff ==
    \A i \in Slots :
        /\ areq[i].stage = "resolving" => areq[i].req = areq[i].orig
        /\ Done(i) =>
            /\ (areq[i].req.user # NoUser) <=> ~NoValidSession(areq[i].outcome)
            /\ ~NoValidSession(areq[i].outcome) =>
                 LET u == areq[i].outcome.session.user
                 IN  areq[i].req.user = [id |-> u.id, email |-> u.email, name |-> u.name]
            /\ [areq[i].req EXCEPT !.user = NoUser] = areq[i].orig
            /\ areq[i].nexts[1] # NoError => areq[i].req.user = NoUser

\* a request with Alice's cookie went through and carries her identity
C2_Witness ==
    \E i \in Slots :
        /\ Done(i)
        /\ areq[i].orig.headers.cookie = "alice"
        /\ areq[i].req.user = [id |-> "u1", email |-> "alice@example.com", name |-> "Alice"]
        /\ areq[i].handled = 1

-----------------------------------------------------------------------------
(* Properties of the health probes *)

C6_LiveAlways200 ==
    lastResp.route = "live" =>
        /\ lastResp.status = 200
        /\ lastResp.body = [status |-> "alive"]

\* a liveness probe answered during shutdown with the connection not connected
C6_Witness ==
    /\ lastResp.route = "live"
    /\ lastResp.db # 1
    /\ server = "closing"
    /\ lastResp.status = 200

-----------------------------------------------------------------------------
(* Properties of start-up *)

\* the keys no loader has a usable default for
RequiredKeys ==
    {k \in Keys : ~Truthy(ConfigEnvDefault(k))} \cup {"MONGO_URI", "BETTER_AUTH_SECRET"}

\* C7: with a required environment variable absent the process ends before the
\* server listens: whenever the server exists every required key is present,
\* and once the modules are loaded a process lacking one has exited.
C7_RequiredEnvBeforeListen ==
    /\ server # "none" => \A k \in RequiredKeys : Truthy(env[k])
    /\ ((\E k \in RequiredKeys : ~Truthy(env[k])) /\ pc \notin {"load_env", "load_modules"}) =>
         /\ pc = "exited"
         /\ exit.code # 0
         /\ server = "none"
         /\ attempts = 0

\* the auth secret is absent and the process has ended without a server
C7_Witness ==
    /\ env["BETTER_AUTH_SECRET"] = Undefined
    /\ pc = "exited"
    /\ exit.cause = "env"
    /\ server = "none"

-----------------------------------------------------------------------------
(* Properties of the shutdown *)

\* C9: after SIGINT or SIGTERM the server stops accepting, in-flight requests
\* finish, then the database connection is closed, then the process exits:
\* before the grace period expires the connection is not closed and the process
\* does not exit while a request is in flight.
C9_GracefulOrder ==
    (timers # {} /\ elapsed < GraceMs) =>
        /\ dbCloseSeen => (server # "listening" /\ Total(inflight) = 0)
        /\ pc = "exited" => (server = "closed" /\ Total(inflight) = 0 /\ dbCloseSeen)

\* the shutdown takes no longer than the grace period (to the clock's
\* granularity), and the timer's exit reports a failure
ShutdownBounded ==
    /\ (Running /\ timers # {}) => elapsed < GraceMs + TickMs
    /\ exit.cause = "timer" => exit.code # 0

\* C10: once shutdown has been called the process eventually exits; the timer
\* armed by the first call forces the exit with a non-zero code when requests
\* are still in flight, and later triggers do not move that deadline.
C10_ExitWithinGrace ==
    /\ []ShutdownBounded
    /\ (timers # {}) ~> (pc = "exited")

\* two triggers, a request that never finished, and the timer ended the process
C10_Witness ==
    /\ pc = "exited"
    /\ exit = [code |-> 1, cause |-> "timer"]
    /\ Total(inflight) > 0
    /\ triggers >= 2
    /\ elapsed >= GraceMs

-----------------------------------------------------------------------------
(* Database closed before exit *)

\* the exits made by the code that handles a shutdown signal
SignalExits == {"shutdown", "sigint_db", "timer"}

-----------------------------------------------------------------------------
(* One shutdown path for the four triggers *)

\* C12: each of the four triggers (SIGINT, SIGTERM, uncaughtException,
\* unhandledRejection) runs the same steps in the same order: when it is
\* delivered the server stops accepting, the close callback is registered and
\* the 10-second timer is armed, and nothing else happens: the close of the
\* database is left to the callback and the exit to the callback or the timer
C12_SamePathForEveryTrigger ==
    [][(installed /\ triggers' = triggers + 1)
          => /\ server' # "listening"
             /\ closeCbs' = closeCbs + 1
             /\ timers' = timers \cup {elapsed + GraceMs}
             /\ UNCHANGED <<pc, exit, readyState, dbClosers, dbCloseSeen>>]_vars

-----------------------------------------------------------------------------
(* Response envelope *)

\* C13: the body of every response a handler produces has a boolean field
\* success, and success is true exactly when the status code is below 400
C13_SuccessAgreesWithStatus ==
    lastResp # NoResp
        => /\ "success" \in DOMAIN lastResp.body
           /\ lastResp.body.success \in BOOLEAN
           /\ lastResp.body.success = (lastResp.status < 400)

-----------------------------------------------------------------------------
(* Rate limiting *)

\* C15: a request from an address that has already used up the configured
\* maximum of the window is answered with the rate-limit message and reaches
\* no handler: it is answered at once, never held back, and stores nothing;
\* a request within the maximum goes on to the router
C15_RateLimitBeforeHandlers ==
    http # NoHttp
        => LET max == RateLimitMaxRequests(env)
           IN  /\ ~max.nan
               /\ http.before >= max.val
                    => /\ http.limited
                       /\ http.sends = <<TooManyRequests>>
                       /\ http.target = "none" /\ http.ran = "none"
                       /\ users = http.usersBefore
               /\ http.before < max.val
                    => /\ ~http.limited
                       /\ http.target = MainRouter(http.req.method, http.req.path)
                       /\ http.sends # <<TooManyRequests>>

\* the third request of an address within one window, a POST /api/users, is
\* turned away
C15_Witness ==
    /\ http # NoHttp
    /\ http.before = RateLimitMaxRequests(env).val
    /\ http.limited
    /\ MainRouter(http.req.method, http.req.path) = "createUser"
    /\ http.ran = "none"

-----------------------------------------------------------------------------
(* Expired sessions *)

\* the request of slot i carries the cookie of a session that has expired
Expired(i) == Done(i) /\ areq[i].orig.headers.cookie = "stale"

-----------------------------------------------------------------------------
(* Password policy *)

\* the request served last went to a route that creates users
UserCreation ==
    /\ http # NoHttp
    /\ http.req.method = "POST"
    /\ \/ http.target = "createUser"
       \/ http.target = "auth.handler" /\ Tail(http.req.path) = <<"sign-up", "email">>

\* C17: a POST to a user-creation route whose password is shorter than the
\* declared minimum of 8 is rejected before any user record is created: the
\* answer is an error and the stored users are unchanged
C17_ShortPasswordRejected ==
    (UserCreation /\ Len(http.req.body.password) < MinPasswordLength)
        => /\ users = http.usersBefore
           /\ http.sends[1].status >= 400

-----------------------------------------------------------------------------
(* Route dispatch *)

\* the path starts with /api/auth
UnderApiAuth(path) == Len(path) >= 2 /\ path[1] = "api" /\ path[2] = "auth"

\* C18: dispatched through the main router, every request to /api/auth/*,
\* under any method, reaches the catch-all that hands it to the engine's
\* handler and no local handler, and GET /health, /health/live and
\* /health/ready reach the health probes
C18_AuthCatchAllReached ==
    (http # NoHttp /\ ~http.limited)
        => /\ UnderApiAuth(http.req.path)
                => http.target = "auth.handler" /\ http.ran = "auth.handler"
           /\ (http.req.method = "GET" /\ http.req.path \in
                    {<<"health">>, <<"health", "live">>, <<"health", "ready">>})
                => http.target \in Routes /\ http.ran = http.target

-----------------------------------------------------------------------------
(* Optional OAuth credentials *)

OAuthKeys == {"GITHUB_CLIENT_ID", "GITHUB_CLIENT_SECRET",
              "GOOGLE_CLIENT_ID", "GOOGLE_CLIENT_SECRET"}

\* C19: the OAuth client id / secret pairs are optional: start-up never fails
\* over them, so a process that exits while its configuration is loaded lacks
\* some other key or has an invalid PORT
C19_OAuthOptional ==
    (pc = "exited" /\ exit.cause = "env")
        => \/ \E k \in Keys \ OAuthKeys : ~Truthy(env[k])
           \/ GetPort(env).threw

-----------------------------------------------------------------------------
(* Email verification *)

\* the session of the request of slot i belongs to a user whose email is not
\* verified
Unverified(i) ==
    /\ Done(i)
    /\ areq[i].outcome.kind = "return"
    /\ areq[i].outcome.session # Null
    /\ areq[i].outcome.session.user # Null
    /\ ~areq[i].outcome.session.user.emailVerified

\* C20: a request to a protected route whose session belongs to a user with an
\* unverified email is turned away with a 403 and never reaches the handler
C20_UnverifiedRejected403 ==
    \A i \in Slots :
        Unverified(i)
            => /\ areq[i].handled = 0
               /\ Len(areq[i].nexts) = 1
               /\ areq[i].nexts[1].type = "ErrorResponse"
               /\ areq[i].nexts[1].statusCode = 403

-----------------------------------------------------------------------------
(* Length of the auth secret *)

\* C21: a configuration whose auth secret is present but shorter than 32
\* characters does not lead to a listening server
C21_ShortSecretNeverListens ==
    (Truthy(env["BETTER_AUTH_SECRET"])
        /\ Len(env["BETTER_AUTH_SECRET"]) < MinSecretLength)
        => server # "listening"

-----------------------------------------------------------------------------
(* Centralized error stage *)

\* C22: an error thrown by a handler, or passed on by authenticateUser,
\* reaches the error stage once and the stage sends the one response of the
\* request: an error of the application's own type keeps its status code,
\* every other error becomes a 500, and in production the response carries
\* neither detail of the error nor, for an unrecognized error, its message
C22_CentralErrorStage ==
    (http # NoHttp /\ http.errors # <<>>)
        => LET err == http.errors[1]
               resp == http.sends[1]
           IN  /\ Len(http.errors) = 1 /\ Len(http.sends) = 1
               /\ resp.body.success = FALSE
               /\ err.type = "ErrorResponse" => resp.status = err.statusCode
               /\ err.type # "ErrorResponse" => resp.status = 500
               /\ Production(env)
                    => /\ resp.body.detail = NoDetail
                       /\ err.type # "ErrorResponse" => resp.body.message # err.message

\* in production the database call of POST /api/users has failed and the
\* request was answered with a 500
C22_Witness ==
    /\ http # NoHttp
    /\ Production(env)
    /\ http.ran = "createUser"
    /\ http.errors = <<DriverError>>
    /\ http.sends[1].status = 500

-----------------------------------------------------------------------------
(* utils/envConfig.ts *)

\* PORT is absent or empty, or parseInt reads from it an integer in 0..65535
PortAcceptable(p) ==
    \/ ~Truthy(p)
    \/ ~ParseInt(p).nan /\ ParseInt(p).val \in 0..PortMax

\* C23: utils/envConfig accepts PORT exactly when it is absent or empty (the
\* exported port is then 5000) or parses to an integer in 0..65535, and fails
\* to load on any other value; an exported PORT is an integer in 0..65535
C23_PortRange ==
    cfg.envConfig # NotLoaded
        => /\ cfg.envConfig # Threw
                => /\ PortAcceptable(env["PORT"])
                   /\ cfg.envConfig.PORT \in 0..PortMax
                   /\ ~Truthy(env["PORT"]) => cfg.envConfig.PORT = 5000
           /\ ~PortAcceptable(env["PORT"]) => cfg.envConfig = Threw
           /\ (Truthy(env["MONGO_URI"]) /\ Truthy(env["BETTER_AUTH_SECRET"])
                 /\ PortAcceptable(env["PORT"]))
                => cfg.envConfig # Threw

\* PORT=65536, one above the range, has made the module throw
C23_Witness ==
    /\ env["PORT"] = <<"6", "5", "5", "3", "6">>
    /\ cfg.envConfig = Threw

\* the keys utils/envConfig.ts cannot load without
EnvConfigRequired == {"MONGO_URI", "BETTER_AUTH_SECRET"}

\* utils/envConfig loads exactly when its two required keys are non-empty and
\* PORT is acceptable
LoadsIffRequired ==
    cfg.envConfig # Threw
        <=> /\ \A k \in EnvConfigRequired : Truthy(env[k])
            /\ PortAcceptable(env["PORT"])

\* the literal each optional key falls back to
EnvConfigDefault(k) ==
    CASE k = "NODE_ENV" -> <<"development">>
      [] k = "ALLOWED_ORIGINS" -> <<"http://localhost:3000,http://localhost:3001">>
      [] k = "RATE_LIMIT_WINDOW_MS" -> [nan |-> FALSE, val |-> 900000]
      [] k = "RATE_LIMIT_MAX_REQUESTS" -> [nan |-> FALSE, val |-> 400]
      [] k = "SMTP_HOST" -> <<"smtp.gmail.com">>
      [] k = "SMTP_PORT" -> <<"5", "8", "7">>
      [] k = "SMTP_SECURE" -> <<"false">>
      [] k = "SMTP_USER" -> Empty
      [] k = "SMTP_PASS" -> Empty
      [] k = "BETTER_AUTH_URL" -> <<"http://localhost:${PORT}">>
      [] k = "FRONTEND_URL" -> <<"http://localhost:3000">>

\* two results of loading agree on every export outside ks
SameBut(a, b, ks) ==
    IF a = Threw \/ b = Threw THEN a = b
    ELSE \A k \in DOMAIN a \ ks : a[k] = b[k]

Loaded(m) == m \notin {NotLoaded, Threw}

C26_NextExactlyOnce ==
    \A i \in 1..MaxAuthReqs :
        /\ areq[i].stage = "resolving" => areq[i].nexts = <<>>
        /\ areq[i].stage = "done"
             => /\ Len(areq[i].nexts) = 1
                /\ areq[i].nexts[1] = NoError <=> areq[i].req.user # NoUser
                /\ areq[i].handled = (IF areq[i].req.user # NoUser THEN 1 ELSE 0)

\* an accepted request whose protected handler threw
C26_Witness ==
    \E i \in 1..MaxAuthReqs :
        /\ areq[i].stage = "done"
        /\ areq[i].down = "throws"
        /\ areq[i].nexts = <<NoError>>

\* the user id a session cookie belongs to
OwnerOf(token) ==
    CASE token = "alice" -> "u1"
      [] token = "bob" -> "u2"
      [] OTHER -> "nobody"

\* the request of slot i was accepted
Accepted(i) == areq[i].stage = "done" /\ areq[i].nexts = <<NoError>>

\* C27: whatever the interleaving of the requests in flight, a request is
\* accepted exactly when its own session resolution returned a session with a
\* user, the identity attached to it is that of the owner of its own cookie,
\* and a step of one request changes nothing of another
C27_OwnIdentity ==
    /\ [](\A i \in 1..MaxAuthReqs :
            areq[i].stage = "done"
                => /\ Accepted(i)
                        <=> /\ areq[i].outcome.kind = "return"
                            /\ OwnerOf(areq[i].orig.headers.cookie) # "nobody"
                   /\ Accepted(i)
                        => areq[i].req.user.id = OwnerOf(areq[i].orig.headers.cookie)
                   /\ ~Accepted(i) => areq[i].req.user = NoUser)
    /\ [][\A i, j \in 1..MaxAuthReqs :
            i # j /\ areq'[i] # areq[i] => areq'[j] = areq[j]]_vars

\* two requests in flight together have both been accepted, each with the
\* identity of its own cookie
C27_Witness ==
    /\ Accepted(1) /\ areq[1].req.user.id = "u1"
    /\ Accepted(2) /\ areq[2].req.user.id = "u2"

\* C28: when the process exits after a shutdown signal, the exit code is 0
\* only if the server has closed and the close of the database connection
\* succeeded; a failed close of the connection, or the grace timer firing
\* first, gives a non-zero exit code
C28_ZeroOnlyAfterCleanClose ==
    (pc = "exited" /\ exit.cause \in SignalExits)
        => /\ exit.code = 0 => (server = "closed" /\ lastClose = "ok")
           /\ lastClose = "failed" => exit.code # 0
           /\ exit.cause = "timer" => exit.code # 0

=============================================================================
